---- MODULE Spec2Model ----
(***************************************************************************)
(* A model of druid/examples/flex.rs: the Rebuilder widget, which owns a   *)
(* boxed subtree built by build_widget from AppState.params and rebuilds   *)
(* it when the params change, the builder build_widget itself, and the     *)
(* root column of make_ui laid out by the flex container.                  *)
(*                                                                         *)
(* Option<T> values are sequences of length at most one: <<>> is None and  *)
(* <<v>> is Some(v).  f64 values are integers (pixels, weights, tenths of  *)
(* the volume).                                                            *)
(***************************************************************************)
EXTENDS Integers, Sequences, FiniteSets, TLC

VARIABLES
    inner,             \* Rebuilder.inner: [id, desc], the box and what it holds
    allocs,            \* number of boxes allocated so far (the next fresh id)
    children_changed,  \* number of ctx.children_changed() calls so far
    built_from,        \* history: Option of the params inner was built from
    call,              \* history: the last call of a Widget method of Rebuilder
    data,              \* the application's AppState
    old_data,          \* the AppState last delivered to the Rebuilder by the host
    attached,          \* whether LifeCycle::WidgetAdded has been delivered
    bw_in,             \* a Params value handed to build_widget
    bw_out,            \* Option of the subtree build_widget returned for bw_in
    lay_in,            \* a flex container and the main-axis constraint it gets
    lay_out            \* Option of the main-axis sizes of its items

vars == <<inner, allocs, children_changed, built_from, call, data, old_data,
          attached, bw_in, bw_out, lay_in, lay_out>>

rvars == <<inner, allocs, children_changed, built_from, call>>
hvars == <<data, old_data, attached>>
bvars == <<bw_in, bw_out>>
lvars == <<lay_in, lay_out>>

-----------------------------------------------------------------------------
(* Bounds *)

MaxBuilds == 3

MaxItems == 3

MaxWeight == 2

MaxExtent == 7

-----------------------------------------------------------------------------
(* The data model *)

DEFAULT_SPACER_SIZE == 8

FIX_MINOR_SIZE == 200

FIX_MAJOR_ROW_WIDTH == 600

FIX_MAJOR_COLUMN_HEIGHT == 300

ROOT_SPACER == 20

FlexType == {"Row", "Column"}

Spacers == {"None", "Flex", "Fixed"}

CrossAxisAlignment == {"Start", "Center", "End"}

MainAxisAlignment ==
    {"Start", "Center", "End", "SpaceBetween", "SpaceEvenly", "SpaceAround"}

\* the spacer sizes the model draws from; the negative one is a number the
\* spacer-size text box parses and stores
SpacerSizes == {-4, DEFAULT_SPACER_SIZE}

Params ==
    [axis : FlexType, cross_alignment : CrossAxisAlignment,
     main_alignment : MainAxisAlignment, fill_major_axis : BOOLEAN,
     debug_layout : BOOLEAN, fix_minor_axis : BOOLEAN, fix_major_axis : BOOLEAN,
     spacers : Spacers, spacer_size : SpacerSizes \cup {0}]

\* main(): the Params and DemoState the application is launched with
InitialParams ==
    [axis |-> "Row", cross_alignment |-> "Center", main_alignment |-> "Start",
     fill_major_axis |-> FALSE, debug_layout |-> FALSE, fix_minor_axis |-> FALSE,
     fix_major_axis |-> FALSE, spacers |-> "None",
     spacer_size |-> DEFAULT_SPACER_SIZE]

InitialDemo == [input_text |-> "hello", enabled |-> FALSE, volume |-> 0]

\* the closure of the "Clear" button
ClearDemo(demo) == [demo EXCEPT !.input_text = "", !.enabled = FALSE, !.volume = 0]

DemoStates ==
    {InitialDemo, ClearDemo(InitialDemo),
     [input_text |-> "hello", enabled |-> TRUE, volume |-> 5]}

\* the Params the Rebuilder is driven with: the control row sets the axis, the
\* spacer kind and the spacer size
ParamsUniverse ==
    {[InitialParams EXCEPT !.axis = a, !.spacers = s, !.spacer_size = z] :
        a \in FlexType, s \in Spacers, z \in SpacerSizes}

AppStates == [demo_state : DemoStates, params : ParamsUniverse]

\* #[derive(Data)] for Params: same() compares every field
same(a, b) ==
    /\ a.axis = b.axis
    /\ a.cross_alignment = b.cross_alignment
    /\ a.main_alignment = b.main_alignment
    /\ a.fill_major_axis = b.fill_major_axis
    /\ a.debug_layout = b.debug_layout
    /\ a.fix_minor_axis = b.fix_minor_axis
    /\ a.fix_major_axis = b.fix_major_axis
    /\ a.spacers = b.spacers
    /\ a.spacer_size = b.spacer_size

\* Option::unwrap_or
unwrap_or(y, default) == IF y = <<>> THEN default ELSE y[1]

-----------------------------------------------------------------------------
(* build_widget: the subtree as the calls that construct it *)

\* flex.with_child(w, 0.) / flex.add_child(w, 0.)
Child(widget) == [kind |-> "child", widget |-> widget, flex |-> 0, len |-> 0]

\* flex.add_spacer(len)
FixedSpacer(len) == [kind |-> "spacer", widget |-> "fixed", flex |-> 0, len |-> len]

\* flex.add_flex_spacer(flex)
FlexSpacer(flex) == [kind |-> "spacer", widget |-> "flex", flex |-> flex, len |-> 0]

space_if_needed_default_size(flex, params) ==
    CASE params.spacers = "None"  -> flex
      [] params.spacers = "Fixed" -> Append(flex, FixedSpacer(DEFAULT_SPACER_SIZE))
      [] params.spacers = "Flex"  -> Append(flex, FlexSpacer(1))

space_if_needed(flex, params) ==
    CASE params.spacers = "None"  -> flex
      [] params.spacers = "Fixed" -> Append(flex, FixedSpacer(params.spacer_size))
      [] params.spacers = "Flex"  -> Append(flex, FlexSpacer(1))

\* SizedBox::empty(): the placeholder Rebuilder::new installs
EmptySizedBox ==
    [kind |-> "empty", axis |-> "Row", cross_alignment |-> "Center",
     main_alignment |-> "Start", must_fill_main_axis |-> FALSE, items |-> <<>>,
     width |-> <<>>, height |-> <<>>, debug |-> FALSE]

build_widget(state) ==
    LET f1 == space_if_needed(<<Child("TextBox")>>, state)
        f2 == space_if_needed(Append(f1, Child("Button")), state)
        f3 == space_if_needed(Append(f2, Child("Label")), state)
        f4 == space_if_needed(Append(f3, Child("Checkbox")), state)
        f5 == space_if_needed(Append(f4, Child("Slider")), state)
        f6 == space_if_needed(Append(f5, Child("ProgressBar")), state)
        f7 == space_if_needed(Append(f6, Child("Stepper")), state)
        f8 == Append(f7, Child("Switch"))
        minor_h == IF state.fix_minor_axis /\ state.axis = "Row"
                   THEN <<FIX_MINOR_SIZE>> ELSE <<>>
        minor_w == IF state.fix_minor_axis /\ state.axis = "Column"
                   THEN <<FIX_MINOR_SIZE>> ELSE <<>>
        w == IF state.fix_major_axis /\ state.axis = "Row"
             THEN <<FIX_MAJOR_ROW_WIDTH>> ELSE minor_w
        h == IF state.fix_major_axis /\ state.axis = "Column"
             THEN <<FIX_MAJOR_COLUMN_HEIGHT>> ELSE minor_h
    IN  [kind |-> "flex", axis |-> state.axis,
         cross_alignment |-> state.cross_alignment,
         main_alignment |-> state.main_alignment,
         must_fill_main_axis |-> state.fill_major_axis, items |-> f8,
         width |-> w, height |-> h, debug |-> state.debug_layout]

-----------------------------------------------------------------------------
(* Rebuilder *)

LifeCycleEvents == {"WidgetAdded", "Size", "HotChanged", "FocusChanged"}

Events == {"MouseDown", "KeyDown"}

\* what a call did, in order
Built(p, id) == [e |-> "build_widget", m |-> "", id |-> id, with |-> <<p>>]
Signalled(id) == [e |-> "children_changed", m |-> "", id |-> id, with |-> <<>>]
Forwarded(m, id) == [e |-> "forward", m |-> m, id |-> id, with |-> <<>>]

Call(op, ev, old, new, trace) ==
    [op |-> op, ev |-> ev, old |-> old, new |-> new, pre_id |-> inner.id,
     pre_from |-> built_from, pre_changed |-> children_changed, trace |-> trace]

\* Rebuilder::new
RebuilderNew ==
    /\ inner = [id |-> 0, desc |-> EmptySizedBox]
    /\ allocs = 1
    /\ children_changed = 0
    /\ built_from = <<>>
    /\ call = [op |-> "new", ev |-> "", old |-> <<>>, new |-> <<>>, pre_id |-> 0,
               pre_from |-> <<>>, pre_changed |-> 0, trace |-> <<>>]

\* Rebuilder::rebuild_inner: the box it stores in self.inner
rebuild_inner(d) == [id |-> allocs, desc |-> build_widget(d.params)]

\* the forwarding methods: event, layout, paint, id
delegate(op, ev) ==
    /\ call' = Call(op, ev, <<>>, <<>>, <<Forwarded(op, inner.id)>>)
    /\ UNCHANGED <<inner, allocs, children_changed, built_from>>

event(ev) == delegate("event", ev)

layout == delegate("layout", "")

paint == delegate("paint", "")

id == delegate("id", "")

lifecycle_forward_first(ev, d) ==
    IF ev = "WidgetAdded"
    THEN /\ allocs <= MaxBuilds
         /\ inner' = rebuild_inner(d)
         /\ allocs' = allocs + 1
         /\ built_from' = <<d.params>>
         /\ call' = Call("lifecycle", ev, <<>>, <<d.params>>,
                         <<Forwarded("lifecycle", inner.id), Built(d.params, allocs)>>)
         /\ UNCHANGED children_changed
    ELSE /\ call' = Call("lifecycle", ev, <<>>, <<d.params>>,
                         <<Forwarded("lifecycle", inner.id)>>)
         /\ UNCHANGED <<inner, allocs, children_changed, built_from>>

lifecycle_any_event(ev, d) ==
    /\ allocs <= MaxBuilds
    /\ inner' = rebuild_inner(d)
    /\ allocs' = allocs + 1
    /\ built_from' = <<d.params>>
    /\ call' = Call("lifecycle", ev, <<>>, <<d.params>>,
                    <<Built(d.params, allocs), Forwarded("lifecycle", allocs)>>)
    /\ UNCHANGED children_changed

lifecycle(ev, d) ==
    IF ev = "WidgetAdded"
    THEN /\ allocs <= MaxBuilds
         /\ inner' = rebuild_inner(d)
         /\ allocs' = allocs + 1
         /\ built_from' = <<d.params>>
         /\ call' = Call("lifecycle", ev, <<>>, <<d.params>>,
                         <<Built(d.params, allocs), Forwarded("lifecycle", allocs)>>)
         /\ UNCHANGED children_changed
    ELSE /\ call' = Call("lifecycle", ev, <<>>, <<d.params>>,
                         <<Forwarded("lifecycle", inner.id)>>)
         /\ UNCHANGED <<inner, allocs, children_changed, built_from>>

needs_rebuild_whole_data(old_d, d) == old_d # d

needs_rebuild_ignoring_size(old_d, d) ==
    ~same([old_d.params EXCEPT !.spacer_size = 0], [d.params EXCEPT !.spacer_size = 0])

\* the condition of update
needs_rebuild(old_d, d) == ~same(old_d.params, d.params)

update(old_d, d) ==
    IF needs_rebuild(old_d, d)
    THEN /\ allocs <= MaxBuilds
         /\ inner' = rebuild_inner(d)
         /\ allocs' = allocs + 1
         /\ built_from' = <<d.params>>
         /\ children_changed' = children_changed + 1
         /\ call' = Call("update", "", <<old_d.params>>, <<d.params>>,
                         <<Built(d.params, allocs), Signalled(allocs)>>)
    ELSE /\ call' = Call("update", "", <<old_d.params>>, <<d.params>>,
                         <<Forwarded("update", inner.id)>>)
         /\ UNCHANGED <<inner, allocs, children_changed, built_from>>

-----------------------------------------------------------------------------
(* The application: the host delivers to the Rebuilder what happens to the   *)
(* AppState it was launched with                                            *)

Init ==
    /\ RebuilderNew
    /\ data = [demo_state |-> InitialDemo, params |-> InitialParams]
    /\ old_data = data
    /\ attached = FALSE
    /\ bw_in = InitialParams
    /\ bw_out = <<>>
    /\ lay_in = [src |-> "none", must_fill_main_axis |-> FALSE, max_main |-> 0,
                 items |-> <<>>]
    /\ lay_out = <<>>

\* the window is connected: WidgetAdded, once
Attach ==
    /\ ~attached
    /\ lifecycle("WidgetAdded", data)
    /\ attached' = TRUE
    /\ old_data' = data
    /\ UNCHANGED <<data, bvars, lvars>>

LifeCycleOther(ev) ==
    /\ attached
    /\ ev # "WidgetAdded"
    /\ lifecycle(ev, data)
    /\ UNCHANGED <<hvars, bvars, lvars>>

\* a widget of the control row writes a field of AppState.params through its lens
ControlRowEdit(p) ==
    /\ attached
    /\ data = old_data
    /\ data' = [data EXCEPT !.params = p]
    /\ UNCHANGED <<rvars, old_data, attached, bvars, lvars>>

\* the spacer-size text box: the lens put of make_spacer_select
SpacerSizeParsed(y) ==
    /\ attached
    /\ data = old_data
    /\ data' = [data EXCEPT !.params.spacer_size = unwrap_or(y, DEFAULT_SPACER_SIZE)]
    /\ UNCHANGED <<rvars, old_data, attached, bvars, lvars>>

\* Rebuilder::event: the subtree, lensed to demo_state, may write demo_state
Event(ev, demo) ==
    /\ attached
    /\ data = old_data
    /\ event(ev)
    /\ data' = [data EXCEPT !.demo_state = demo]
    /\ UNCHANGED <<old_data, attached, bvars, lvars>>

\* the host delivers the data to Rebuilder::update, with the data it delivered last
DeliverUpdate ==
    /\ attached
    /\ update(old_data, data)
    /\ old_data' = data
    /\ UNCHANGED <<data, attached, bvars, lvars>>

Layout ==
    /\ attached
    /\ layout
    /\ UNCHANGED <<hvars, bvars, lvars>>

Paint ==
    /\ attached
    /\ paint
    /\ UNCHANGED <<hvars, bvars, lvars>>

Id ==
    /\ id
    /\ UNCHANGED <<hvars, bvars, lvars>>

Next ==
    \/ Attach
    \/ \E ev \in LifeCycleEvents : LifeCycleOther(ev)
    \/ \E p \in ParamsUniverse : ControlRowEdit(p)
    \/ \E y \in {<<>>} \cup {<<z>> : z \in SpacerSizes} : SpacerSizeParsed(y)
    \/ \E ev \in Events, demo \in DemoStates \cup {ClearDemo(data.demo_state)} :
          Event(ev, demo)
    \/ DeliverUpdate
    \/ Layout
    \/ Paint
    \/ Id

Spec == Init /\ [][Next]_vars

-----------------------------------------------------------------------------
(* A caller that invokes the Widget methods of an attached Rebuilder with    *)
(* any arguments: the old data of an update need not be the data delivered   *)
(* last, and WidgetAdded may be delivered again                              *)

DirectLifecycle(ev, d) ==
    /\ lifecycle(ev, d)
    /\ attached' = (attached \/ ev = "WidgetAdded")
    /\ UNCHANGED <<data, old_data, bvars, lvars>>

DirectUpdate(old_d, d) ==
    /\ attached
    /\ update(old_d, d)
    /\ UNCHANGED <<hvars, bvars, lvars>>

DirectEvent(ev) ==
    /\ attached
    /\ event(ev)
    /\ UNCHANGED <<hvars, bvars, lvars>>

\* the arguments the direct caller draws from
DirectStates ==
    {s \in AppStates : s.params.axis = "Row" /\ s.demo_state.input_text = "hello"}

NextDirect ==
    \/ \E ev \in LifeCycleEvents, d \in DirectStates : DirectLifecycle(ev, d)
    \/ \E old_d \in DirectStates, d \in DirectStates : DirectUpdate(old_d, d)
    \/ \E ev \in Events : DirectEvent(ev)
    \/ Layout
    \/ Paint
    \/ Id

SpecDirect == Init /\ [][NextDirect]_vars

-----------------------------------------------------------------------------
(* build_widget applied to every Params value *)

InitBuild ==
    /\ RebuilderNew
    /\ data = [demo_state |-> InitialDemo, params |-> InitialParams]
    /\ old_data = data
    /\ attached = FALSE
    /\ bw_in \in Params
    /\ bw_out = <<>>
    /\ lay_in = [src |-> "none", must_fill_main_axis |-> FALSE, max_main |-> 0,
                 items |-> <<>>]
    /\ lay_out = <<>>

BuildStep ==
    /\ bw_out = <<>>
    /\ bw_out' = <<build_widget(bw_in)>>
    /\ UNCHANGED <<rvars, hvars, bw_in, lvars>>

NextBuild == BuildStep

SpecBuild == InitBuild /\ [][NextBuild]_vars

-----------------------------------------------------------------------------
(* The flex container's main-axis layout: measurement and distribution      *)

Max(a, b) == IF a >= b THEN a ELSE b

RECURSIVE SumSeq(_)
SumSeq(s) == IF s = <<>> THEN 0 ELSE Head(s) + SumSeq(Tail(s))

\* a layout item: flex weight, measured main-axis size, Option of a fixed size
LayoutItem(flex, size, fixed_main) ==
    [flex |-> flex, size |-> size, fixed_main |-> fixed_main]

\* an item with a fixed main-axis size counts as flex 0
EffFlex(it) == IF it.fixed_main # <<>> THEN 0 ELSE it.flex

NonFlexMain(it) ==
    IF it.fixed_main # <<>> THEN it.fixed_main[1]
    ELSE IF it.flex = 0 THEN it.size ELSE 0

non_flex_total(items) ==
    SumSeq([i \in 1..Len(items) |-> NonFlexMain(items[i])])

flex_weight_total(items) ==
    SumSeq([i \in 1..Len(items) |-> EffFlex(items[i])])

container_main_extent(c) ==
    IF c.must_fill_main_axis THEN c.max_main ELSE non_flex_total(c.items)

leftover(c) == Max(0, container_main_extent(c) - non_flex_total(c.items))

\* the distribution pass, largest remainder first, earlier items first on ties
FlexLayout(c) ==
    LET items == c.items
        n     == Len(items)
        total == flex_weight_total(items)
        left  == leftover(c)
        flexible == {i \in 1..n : EffFlex(items[i]) > 0}
        base(i) == (left * EffFlex(items[i])) \div total
        rem(i)  == (left * EffFlex(items[i])) % total
        rest  == left - SumSeq([i \in 1..n |-> IF i \in flexible THEN base(i) ELSE 0])
        ahead(i) == {j \in flexible : rem(j) > rem(i) \/ (rem(j) = rem(i) /\ j < i)}
    IN  [i \in 1..n |->
            IF i \in flexible
            THEN base(i) + (IF Cardinality(ahead(i)) < rest THEN 1 ELSE 0)
            ELSE NonFlexMain(items[i])]

\* the sum of the sizes the flexible items were given
FlexibleSum(c, sizes) ==
    SumSeq([i \in 1..Len(c.items) |-> IF EffFlex(c.items[i]) > 0 THEN sizes[i] ELSE 0])

make_ui_rebuilder_unweighted(control_row_main, max_main) ==
    [src |-> "make_ui", must_fill_main_axis |-> TRUE, max_main |-> max_main,
     items |-> <<LayoutItem(0, control_row_main, <<>>),
                 LayoutItem(0, ROOT_SPACER, <<>>),
                 LayoutItem(0, 0, <<>>)>>]

\* make_ui: the root column, given the measured height of the control row
make_ui(control_row_main, max_main) ==
    [src |-> "make_ui", must_fill_main_axis |-> TRUE, max_main |-> max_main,
     items |-> <<LayoutItem(0, control_row_main, <<>>),
                 LayoutItem(0, ROOT_SPACER, <<>>),
                 LayoutItem(1, 0, <<>>)>>]

\* the container build_widget makes, each content child measuring child_main
BuiltContainer(p, child_main, max_main) ==
    LET t == build_widget(p)
    IN  [src |-> "build_widget", must_fill_main_axis |-> t.must_fill_main_axis,
         max_main |-> max_main,
         items |-> [i \in 1..Len(t.items) |->
                      IF t.items[i].kind = "child"
                      THEN LayoutItem(0, child_main, <<>>)
                      ELSE LayoutItem(t.items[i].flex, t.items[i].len, <<>>)]]

ItemSet ==
    {LayoutItem(0, z, <<>>) : z \in 1..2}
        \cup {LayoutItem(w, 0, <<>>) : w \in 1..MaxWeight}
        \cup {LayoutItem(1, 0, <<2>>)}

Extents == (0..MaxExtent) \cup {100}

LayoutInputs ==
    {[src |-> "any", must_fill_main_axis |-> f, max_main |-> x, items |-> s] :
        f \in BOOLEAN, x \in Extents,
        s \in UNION {[1..n -> ItemSet] : n \in 1..MaxItems}}
      \cup {make_ui(m, x) : m \in {5, 30}, x \in Extents}
      \cup {BuiltContainer([InitialParams EXCEPT !.fill_major_axis = f, !.spacers = s],
                           1, x) : f \in BOOLEAN, s \in Spacers, x \in Extents}

InitLayout ==
    /\ RebuilderNew
    /\ data = [demo_state |-> InitialDemo, params |-> InitialParams]
    /\ old_data = data
    /\ attached = FALSE
    /\ bw_in = InitialParams
    /\ bw_out = <<>>
    /\ lay_in \in LayoutInputs
    /\ lay_out = <<>>

LayoutStep ==
    /\ lay_out = <<>>
    /\ lay_out' = <<FlexLayout(lay_in)>>
    /\ UNCHANGED <<rvars, hvars, bvars, lay_in>>

NextLayout == LayoutStep

SpecLayout == InitLayout /\ [][NextLayout]_vars

-----------------------------------------------------------------------------
(* Properties *)

\* how many times the last call did e
Count(e) == Cardinality({i \in 1..Len(call.trace) : call.trace[i].e = e})

IsFixedSpacer(it) == it.kind = "spacer" /\ it.widget = "fixed"

\* C1: an update whose new config is the config the current subtree was built
\* from leaves Rebuilder.inner the identical object and does not invoke
\* children_changed, whatever demo_state is; step by step, so over any
\* sequence of such updates the count of children_changed stays as it was.
C1_UnchangedConfigKeepsSubtree ==
    (call.op = "update" /\ call.new = call.pre_from) =>
        /\ inner.id = call.pre_id
        /\ built_from = call.pre_from
        /\ children_changed = call.pre_changed
        /\ Count("build_widget") = 0
        /\ Count("children_changed") = 0

C1_Witness ==
    /\ call.op = "update" /\ call.new = call.pre_from
    /\ data = old_data
    /\ data.demo_state # InitialDemo
    /\ data.params # InitialParams
    /\ children_changed = 1
    /\ inner.id = call.pre_id

\* C2: an update whose new config differs from the config the current subtree
\* was built from invokes build_widget once, with the new params, installs the
\* result as a new box, and then invokes children_changed once; the new
\* subtree is build_widget of the new config alone.
C2_ChangedConfigRebuildsOnce ==
    (call.op = "update" /\ call.pre_from # <<>> /\ call.new # call.pre_from) =>
        /\ call.trace = <<Built(call.new[1], inner.id), Signalled(inner.id)>>
        /\ inner.id # call.pre_id
        /\ inner.desc = build_widget(call.new[1])
        /\ built_from = call.new
        /\ children_changed = call.pre_changed + 1

C2_Witness ==
    /\ call.op = "update" /\ call.pre_from # <<>> /\ call.new # call.pre_from
    /\ children_changed = 2
    /\ inner.desc.items # build_widget(call.pre_from[1]).items

\* C3: an update is forwarded to the subtree if and only if its new config is
\* the config the current subtree was built from: then it is forwarded once,
\* to the current subtree, and nothing is built; otherwise the subtree is
\* rebuilt and the update is forwarded to no subtree.
C3_ForwardIffEqualConfig ==
    (call.op = "update" /\ call.pre_from # <<>>) =>
        IF call.new = call.pre_from
        THEN /\ call.trace = <<Forwarded("update", call.pre_id)>>
             /\ inner.id = call.pre_id
        ELSE /\ Count("forward") = 0
             /\ Count("build_widget") = 1
             /\ inner.id # call.pre_id

C3_Witness ==
    /\ call.op = "update" /\ call.new = call.pre_from
    /\ call.trace = <<Forwarded("update", inner.id)>>
    /\ children_changed >= 1

\* C4 as claimed: after attachment, whatever the old data of the updates, the
\* current subtree is build_widget of the new config of the last update.
C4_SubtreeOfLastNewConfig ==
    (call.op = "update" /\ call.pre_from # <<>>) =>
        inner.desc = build_widget(call.new[1])

\* C4 amended: the Rebuilder keeps no config; an update rebuilds exactly when
\* its old config is not the same as its new config, and when the old config
\* is the config the current subtree was built from, the subtree after the
\* update is build_widget of the new config.
C4_UpdateComparesOldData ==
    (call.op = "update" /\ call.pre_from # <<>>) =>
        /\ (inner.id # call.pre_id) <=> (call.old # call.new)
        /\ (call.old = call.pre_from) =>
              /\ inner.desc = build_widget(call.new[1])
              /\ built_from = call.new

C4_Witness ==
    /\ call.op = "update" /\ call.pre_from # <<>>
    /\ call.old = call.pre_from /\ call.old # call.new
    /\ inner.desc = build_widget(call.new[1])
    /\ children_changed = 2

\* C5 as claimed: once the subtree is built, no lifecycle event, a further
\* WidgetAdded included, rebuilds it.
C5_BuiltOnce ==
    (call.op = "lifecycle" /\ call.pre_from # <<>>) => inner.id = call.pre_id

\* C5 amended: every WidgetAdded, the first and any further one, invokes
\* build_widget with the config of the data it carries and stores the result;
\* no other lifecycle event rebuilds the subtree, and apart from WidgetAdded
\* only an update whose old and new config differ replaces it.
C5_EveryWidgetAddedBuilds ==
    /\ call.op = "new" => (inner.desc = EmptySizedBox /\ built_from = <<>>)
    /\ call.op = "lifecycle" =>
          IF call.ev = "WidgetAdded"
          THEN /\ Count("build_widget") = 1
               /\ call.trace[1] = Built(call.new[1], inner.id)
               /\ inner.id # call.pre_id
               /\ inner.desc = build_widget(call.new[1])
               /\ built_from = call.new
          ELSE /\ Count("build_widget") = 0
               /\ inner.id = call.pre_id
               /\ built_from = call.pre_from
    /\ inner.id # call.pre_id =>
          \/ call.op = "lifecycle" /\ call.ev = "WidgetAdded"
          \/ call.op = "update" /\ call.old # call.new

C5_Witness ==
    /\ call.op = "lifecycle" /\ call.ev = "WidgetAdded"
    /\ call.pre_from # <<>>
    /\ inner.id # call.pre_id
    /\ built_from # call.pre_from

\* C7 as claimed: no subtree is ever built that contains a fixed spacer of
\* negative length.
C7_NoNegativeFixedSpacer ==
    \A i \in 1..Len(inner.desc.items) :
        IsFixedSpacer(inner.desc.items[i]) => inner.desc.items[i].len >= 0

IsChild(it) == it.kind = "child"

ContentOrder ==
    <<"TextBox", "Button", "Label", "Checkbox", "Slider", "ProgressBar", "Stepper",
      "Switch">>

\* C9: for every Params value build_widget makes a container whose content
\* children are the same 8 widgets in the same order, each with flex 0; with
\* spacers = None these are all its items, and otherwise exactly one spacer
\* stands between each two adjacent children (15 items), a fixed spacer of
\* length spacer_size for Fixed and a flexible spacer of weight 1 for Flex.
C9_ItemsOfBuildWidget ==
    bw_out # <<>> =>
        LET items == bw_out[1].items
            children == SelectSeq(items, IsChild)
        IN  /\ [i \in 1..Len(children) |-> children[i].widget] = ContentOrder
            /\ \A i \in 1..Len(children) : children[i].flex = 0
            /\ bw_in.spacers = "None" => Len(items) = 8
            /\ bw_in.spacers # "None" =>
                  /\ Len(items) = 15
                  /\ \A i \in 1..15 :
                        IF i % 2 = 1
                        THEN items[i] = Child(ContentOrder[(i + 1) \div 2])
                        ELSE items[i] =
                               IF bw_in.spacers = "Fixed"
                               THEN FixedSpacer(bw_in.spacer_size)
                               ELSE FlexSpacer(1)

C9_Witness ==
    /\ bw_out # <<>>
    /\ bw_in.spacers = "Fixed" /\ bw_in.spacer_size = 0 /\ bw_in.axis = "Column"
    /\ Len(bw_out[1].items) = 15
    /\ bw_out[1].items[14] = FixedSpacer(0)

\* C10: the subtree is replaced only by lifecycle with WidgetAdded and by
\* update with a changed config; event, layout, paint, id, lifecycle with
\* another event and update with an equal config forward to the current
\* subtree, keep it and do not invoke children_changed; lifecycle with
\* WidgetAdded builds first and forwards the event to the subtree it built.
C10_OnlyTwoOperationsReplace ==
    LET replaces == \/ call.op = "lifecycle" /\ call.ev = "WidgetAdded"
                    \/ call.op = "update" /\ call.old # call.new
    IN  /\ inner.id # call.pre_id => replaces
        /\ (call.op # "new" /\ ~replaces) =>
              /\ call.trace = <<Forwarded(call.op, call.pre_id)>>
              /\ inner.id = call.pre_id
              /\ built_from = call.pre_from
              /\ children_changed = call.pre_changed
        /\ (call.op = "lifecycle" /\ call.ev = "WidgetAdded") =>
              /\ call.trace = <<Built(call.new[1], inner.id),
                                Forwarded("lifecycle", inner.id)>>
              /\ inner.id # call.pre_id
              /\ inner.desc # EmptySizedBox
              /\ children_changed = call.pre_changed

C10_Witness ==
    /\ call.op = "lifecycle" /\ call.ev = "WidgetAdded"
    /\ call.pre_id = 0
    /\ call.trace[2] = Forwarded("lifecycle", 1)
    /\ inner.desc = build_widget(InitialParams)

====
